---- MODULE Spec2Model ----
(***************************************************************************)
(* Model of src/pathways.py: QuantumPathAnalyzer.build_circuit and         *)
(* QuantumPathAnalyzer.compute_probability_evolution.                      *)
(*                                                                         *)
(* Numbers.  A float is a fixed-point integer with Scale units per 1.0; a  *)
(* complex number is a pair <<re, im>> of such integers.  Every product,   *)
(* quotient and square root is rounded to the nearest unit, as every float *)
(* operation is rounded to the nearest representable value.                *)
(*                                                                         *)
(* Specifications.                                                         *)
(*   Spec        one call of compute_probability_evolution(N, timesteps)   *)
(*   SpecTwice   the call made twice with the same arguments               *)
(*   SpecPhase   the call made twice, the second from a final forward      *)
(*               state of other phase and with the first call's draw       *)
(*   SpecCircuit one call of build_circuit(track_states)                   *)
(*   SpecSweep   one call of sweep(grid), the optimizer of the design      *)
(*               document, which pathways.py does not hold                 *)
(***************************************************************************)
EXTENDS Integers, Sequences, FiniteSets, TLC

\* ------------------------------------------------------------ bounds
\* an evaluation returns an error in 0 .. MaxError
MaxError == 2
\* two probabilities that differ by at most Tolerance units count as equal
Tolerance == 10
MaxN == 3
MaxT == 2
\* units per 1.0 of the fixed-point numbers
Scale == 10000
\* terms of the power series that stands for np.exp
ExpTerms == 8
\* terms of the power series that stands for scipy.linalg.expm
ExpmTerms == 4
\* np.random.random draws one of the angles k/NumAngles, k in 0..NumAngles-1
NumAngles == 3

\* ------------------------------------------------------------ real arithmetic
\* x/d rounded to the nearest integer (d > 0)
RoundDiv(x, d) == (2 * x + d) \div (2 * d)

\* product of two fixed-point numbers
FMul(a, b) == RoundDiv(a * b, Scale)

RECURSIVE ISqrtBetween(_, _, _)
\* the largest r in lo..hi with r*r <= x
ISqrtBetween(x, lo, hi) ==
    IF lo >= hi THEN lo
    ELSE LET mid == (lo + hi + 1) \div 2
         IN IF mid * mid <= x THEN ISqrtBetween(x, mid, hi)
                              ELSE ISqrtBetween(x, lo, mid - 1)

\* np.sqrt of a fixed-point number p >= 0, to the nearest unit
FSqrt(p) ==
    LET x == p * Scale
        r == ISqrtBetween(x, 0, 4 * Scale)
    IN IF (r + 1) * (r + 1) - x < x - r * r THEN r + 1 ELSE r

\* ------------------------------------------------------------ complex arithmetic
CZero == <<0, 0>>
COne == <<Scale, 0>>
CReal(a) == <<a, 0>>
CAdd(a, b) == <<a[1] + b[1], a[2] + b[2]>>
CMul(a, b) == <<FMul(a[1], b[1]) - FMul(a[2], b[2]),
                FMul(a[1], b[2]) + FMul(a[2], b[1])>>
\* division of a complex number by a positive integer
CDivInt(a, k) == <<RoundDiv(a[1], k), RoundDiv(a[2], k)>>
\* 1j * a and -1j * a
CTimesI(a) == <<-a[2], a[1]>>
CTimesMinusI(a) == <<a[2], -a[1]>>

\* np.abs(z) ** 2: the modulus, then its square
CAbs(z) == FSqrt(FMul(z[1], z[1]) + FMul(z[2], z[2]))
AbsSquared(z) == FMul(CAbs(z), CAbs(z))

RECURSIVE CExpTerm(_, _)
\* z^k / k!
CExpTerm(z, k) == IF k = 0 THEN COne ELSE CDivInt(CMul(CExpTerm(z, k - 1), z), k)

RECURSIVE CExpSum(_, _)
CExpSum(z, k) == IF k = 0 THEN COne ELSE CAdd(CExpSum(z, k - 1), CExpTerm(z, k))

\* np.exp of a complex number
CExp(z) == CExpSum(z, ExpTerms)

\* ------------------------------------------------------------ vectors and matrices
Idx(n) == 0 .. n - 1

\* the array of length n that holds f[0], ..., f[n-1], each computed once
Vector(f, n) ==
    LET F[k \in 0 .. n] == IF k = 0 THEN <<>> ELSE ((k - 1) :> f[k - 1]) @@ F[k - 1]
    IN F[n]

\* the n x n array that holds f[r, c], each computed once
Matrix(f, n) ==
    LET Row(r) ==
            LET F[c \in 0 .. n] ==
                    IF c = 0 THEN <<>> ELSE (<<r, c - 1>> :> f[r, c - 1]) @@ F[c - 1]
            IN F[n]
        G[r \in 0 .. n] == IF r = 0 THEN <<>> ELSE Row(r - 1) @@ G[r - 1]
    IN G[n]

RECURSIVE CSum(_, _)
\* f[0] + ... + f[n-1]
CSum(f, n) == IF n = 0 THEN CZero ELSE CAdd(CSum(f, n - 1), f[n - 1])

\* np.zeros((n, n), dtype=complex)
ZeroMatrix(n) == Matrix([r, c \in Idx(n) |-> CZero], n)
Identity(n) == Matrix([r, c \in Idx(n) |-> IF r = c THEN COne ELSE CZero], n)

MatMul(A, B, n) ==
    Matrix([r, c \in Idx(n) |-> CSum([k \in Idx(n) |-> CMul(A[r, k], B[k, c])], n)], n)
MatAdd(A, B, n) == Matrix([r, c \in Idx(n) |-> CAdd(A[r, c], B[r, c])], n)
MatDivInt(A, d, n) == Matrix([r, c \in Idx(n) |-> CDivInt(A[r, c], d)], n)

\* U @ v
MatVec(U, v, n) ==
    Vector([r \in Idx(n) |-> CSum([k \in Idx(n) |-> CMul(U[r, k], v[k])], n)], n)

RECURSIVE ExpmFrom(_, _, _, _, _)
\* sum + X^(k+1)/(k+1)! + ... , where term = X^k / k!
ExpmFrom(X, k, term, sum, n) ==
    IF k >= ExpmTerms THEN sum
    ELSE LET next == MatDivInt(MatMul(term, X, n), k + 1, n)
             total == MatAdd(sum, next, n)
         IN \* the test makes TLC compute total here, not inside the later terms
            IF DOMAIN total = {} THEN total ELSE ExpmFrom(X, k + 1, next, total, n)

\* scipy.linalg.expm
expm(X, n) == ExpmFrom(X, 0, Identity(n), Identity(n), n)

\* ------------------------------------------------------------ state
VARIABLES
    pc,              \* the position in compute_probability_evolution
    N, timesteps,    \* its arguments
    i, H,            \* build_hamiltonian: loop index and matrix
    t,               \* loop index of the forward and of the backward loop
    state,           \* forward state vector
    forward_probs,   \* list of the forward distributions
    state_vec,       \* backward state vector
    backward_probs,  \* list of the backward distributions
    nU, nUinv,       \* how often expm(-1j*H*dt) and expm(1j*H*dt) were applied
    call, returned,  \* number of the call under way, results returned so far
    trace,           \* per call: the final forward state, the random draw and
                     \* the backward start made of them
    cpc, cstep,      \* the position in build_circuit: statement kind and number
    params,          \* self.params
    track_states,    \* the argument of build_circuit
    qc,              \* the circuit: its instructions in order
    state_tracking,  \* list of (stage_name, statevector)
    spc,             \* the position in sweep
    grid,            \* its argument: a candidate sequence per configuration field
    outer, inner,    \* positions of the outer and the inner loop in their sequences
    bestError, bestConfiguration,  \* the running minimum and its configuration
    history          \* SweepHistory: every error computed, in enumeration order

evalVars == <<pc, N, timesteps, i, H, t, state, forward_probs, state_vec,
              backward_probs, nU, nUinv, call, returned, trace>>
circuitVars == <<cpc, cstep, params, track_states, qc, state_tracking>>
sweepVars == <<spc, grid, outer, inner, bestError, bestConfiguration, history>>
vars == <<evalVars, circuitVars, sweepVars>>

\* ------------------------------------------------------------ program constants
\* def build_hamiltonian(N, g=0.15)
g == (15 * Scale) \div 100
\* dt = 0.4
dt == (4 * Scale) \div 10

\* np.zeros(N, dtype=complex)
ZeroVector(n) == Vector([k \in Idx(n) |-> CZero], n)

\* np.abs(v) ** 2, element-wise
Probs(v, n) == Vector([k \in Idx(n) |-> AbsSquared(v[k])], n)

\* -1j * H * dt and 1j * H * dt
MinusIHdt(M, n) == Matrix([r, c \in Idx(n) |-> CMul(CTimesMinusI(M[r, c]), CReal(dt))], n)
PlusIHdt(M, n) == Matrix([r, c \in Idx(n) |-> CMul(CTimesI(M[r, c]), CReal(dt))], n)

\* the values np.random.random(N) can return: an angle in [0, 1) per index
Angles == {(k * Scale) \div NumAngles : k \in 0 .. NumAngles - 1}
RandomDraws(n) == [Idx(n) -> Angles]

\* np.sqrt(forward_probs[-1]) * np.exp(1j * np.random.random(N))
BackwardStart(p, rnd, n) ==
    Vector([k \in Idx(n) |-> CMul(CReal(FSqrt(p[k])), CExp(CTimesI(CReal(rnd[k]))))], n)

\* ------------------------------------------------------------ build_hamiltonian
\* numpy accepts an index r of an axis of length n when -n <= r < n
InRange(r, n) == -n <= r /\ r < n

\* for i in range(N-1)
HamiltonianRangeWhole(n) == n
HamiltonianRange(n) == n - 1

BuildHamiltonianIter ==
    /\ pc = "build_hamiltonian"
    /\ i < HamiltonianRange(N)
    /\ IF InRange(i, N) /\ InRange(i + 1, N)
       THEN /\ H' = [H EXCEPT ![i % N, (i + 1) % N] = CReal(g),
                              ![(i + 1) % N, i % N] = CReal(g)]
            /\ i' = i + 1
            /\ pc' = pc
       ELSE /\ pc' = "IndexError"
            /\ UNCHANGED <<H, i>>
    /\ UNCHANGED <<N, timesteps, t, state, forward_probs, state_vec,
                   backward_probs, nU, nUinv, call, returned, trace>>

\* state = np.zeros(N, dtype=complex); state[N // 2] = 1.0
InitialStateFirst(n) == [ZeroVector(n) EXCEPT ![0] = COne]
InitialState(n) == [ZeroVector(n) EXCEPT ![n \div 2] = COne]

\* return H; dt = 0.4; forward_probs = []; state = ...
BuildHamiltonianReturn ==
    /\ pc = "build_hamiltonian"
    /\ i >= HamiltonianRange(N)
    /\ pc' = "forward"
    /\ forward_probs' = <<>>
    /\ state' = InitialState(N)
    /\ t' = 0
    /\ UNCHANGED <<N, timesteps, i, H, state_vec, backward_probs, nU, nUinv,
                   call, returned, trace>>

\* ------------------------------------------------------------ forward evolution
\* if t < timesteps
ForwardStepAlways(tt, T) == tt <= T
ForwardStepTaken(tt, T) == tt < T

\* one pass of: for t in range(timesteps + 1)
ForwardIter ==
    /\ pc = "forward"
    /\ t < timesteps + 1
    /\ forward_probs' = Append(forward_probs, Probs(state, N))
    /\ IF ForwardStepTaken(t, timesteps)
       THEN /\ state' = MatVec(expm(MinusIHdt(H, N), N), state, N)
            /\ nU' = nU + 1
       ELSE UNCHANGED <<state, nU>>
    /\ t' = t + 1
    /\ UNCHANGED <<pc, N, timesteps, i, H, state_vec, backward_probs, nUinv,
                   call, returned, trace>>

\* backward_probs = []; state_vec = sqrt(forward_probs[-1]) * exp(1j * random(N)),
\* where np.random.random(N) returns rnd
BackwardInitFromState(rnd) ==
    /\ pc = "forward"
    /\ t >= timesteps + 1
    /\ state_vec' = Vector([k \in Idx(N) |-> CMul(state[k], CExp(CTimesI(CReal(rnd[k]))))], N)
    /\ trace' = Append(trace, [final |-> state, rnd |-> rnd, start |-> state_vec'])
    /\ backward_probs' = <<>>
    /\ t' = 0
    /\ pc' = "backward"
    /\ UNCHANGED <<N, timesteps, i, H, state, forward_probs, nU, nUinv,
                   call, returned>>

BackwardInitWith(rnd) ==
    /\ pc = "forward"
    /\ t >= timesteps + 1
    /\ state_vec' = BackwardStart(forward_probs[Len(forward_probs)], rnd, N)
    /\ trace' = Append(trace, [final |-> state, rnd |-> rnd, start |-> state_vec'])
    /\ backward_probs' = <<>>
    /\ t' = 0
    /\ pc' = "backward"
    /\ UNCHANGED <<N, timesteps, i, H, state, forward_probs, nU, nUinv,
                   call, returned>>

BackwardInit == \E rnd \in RandomDraws(N) : BackwardInitWith(rnd)

\* ------------------------------------------------------------ backward evolution
BackwardStepTaken(tt, T) == tt < T

\* the state after one backward step
BackwardStep(M, v, n) == MatVec(expm(PlusIHdt(M, n), n), v, n)

BackwardIter ==
    /\ pc = "backward"
    /\ t < timesteps + 1
    /\ backward_probs' = Append(backward_probs, Probs(state_vec, N))
    /\ IF BackwardStepTaken(t, timesteps)
       THEN /\ state_vec' = BackwardStep(H, state_vec, N)
            /\ nUinv' = nUinv + 1
       ELSE UNCHANGED <<state_vec, nUinv>>
    /\ t' = t + 1
    /\ UNCHANGED <<pc, N, timesteps, i, H, state, forward_probs, nU,
                   call, returned, trace>>

\* return np.array(forward_probs), np.array(backward_probs)
Return ==
    /\ pc = "backward"
    /\ t >= timesteps + 1
    /\ pc' = "done"
    /\ returned' = Append(returned, <<forward_probs, backward_probs>>)
    /\ UNCHANGED <<N, timesteps, i, H, t, state, forward_probs, state_vec,
                   backward_probs, nU, nUinv, call, trace>>

\* ------------------------------------------------------------ specification
\* the state at the call compute_probability_evolution(N, timesteps)
Entry(n, T, c, r) ==
    /\ pc = "build_hamiltonian"
    /\ N = n
    /\ timesteps = T
    /\ i = 0
    /\ H = ZeroMatrix(n)
    /\ t = 0
    /\ state = ZeroVector(n)
    /\ forward_probs = <<>>
    /\ state_vec = ZeroVector(n)
    /\ backward_probs = <<>>
    /\ nU = 0
    /\ nUinv = 0
    /\ call = c
    /\ returned = r
    /\ trace = <<>>

\* build_circuit is not running
CircuitIdle ==
    /\ cpc = "idle"
    /\ cstep = 0
    /\ params = <<>>
    /\ track_states = FALSE
    /\ qc = <<>>
    /\ state_tracking = <<>>

\* sweep is not running
SweepIdle ==
    /\ spc = "idle"
    /\ grid = <<>>
    /\ outer = 0
    /\ inner = 0
    /\ bestError = 0
    /\ bestConfiguration = <<>>
    /\ history = <<>>

\* compute_probability_evolution is not running
EvalIdle ==
    /\ pc = "idle"
    /\ N = 0
    /\ timesteps = 0
    /\ i = 0
    /\ H = <<>>
    /\ t = 0
    /\ state = <<>>
    /\ forward_probs = <<>>
    /\ state_vec = <<>>
    /\ backward_probs = <<>>
    /\ nU = 0
    /\ nUinv = 0
    /\ call = 0
    /\ returned = <<>>
    /\ trace = <<>>

Init ==
    /\ CircuitIdle
    /\ SweepIdle
    /\ \E n \in 1 .. MaxN, T \in 0 .. MaxT : Entry(n, T, 1, <<>>)

Next ==
    \/ BuildHamiltonianIter /\ UNCHANGED <<circuitVars, sweepVars>>
    \/ BuildHamiltonianReturn /\ UNCHANGED <<circuitVars, sweepVars>>
    \/ ForwardIter /\ UNCHANGED <<circuitVars, sweepVars>>
    \/ BackwardInit /\ UNCHANGED <<circuitVars, sweepVars>>
    \/ BackwardIter /\ UNCHANGED <<circuitVars, sweepVars>>
    \/ Return /\ UNCHANGED <<circuitVars, sweepVars>>

Spec == Init /\ [][Next]_vars

\* a second call with the same arguments, as a caller that repeats the evaluation
SecondCall ==
    /\ pc = "done"
    /\ call = 1
    /\ call' = 2
    /\ pc' = "build_hamiltonian"
    /\ i' = 0
    /\ H' = ZeroMatrix(N)
    /\ t' = 0
    /\ state' = ZeroVector(N)
    /\ forward_probs' = <<>>
    /\ state_vec' = ZeroVector(N)
    /\ backward_probs' = <<>>
    /\ nU' = 0
    /\ nUinv' = 0
    /\ UNCHANGED <<N, timesteps, returned, trace>>

NextTwice == Next \/ (SecondCall /\ UNCHANGED <<circuitVars, sweepVars>>)

SpecTwice == Init /\ [][NextTwice]_vars

\* ------------------------------------------------------------ two final states
\* z turned by q quarter turns: the same modulus, another phase
QuarterTurns(z, q) ==
    CASE q % 4 = 0 -> z
      [] q % 4 = 1 -> CTimesI(z)
      [] q % 4 = 2 -> <<-z[1], -z[2]>>
      [] q % 4 = 3 -> CTimesMinusI(z)

\* the last pass of the forward loop of the second call, from a final state that
\* has the squared magnitudes of the first call's and another phase at index k
ForwardLastTurned ==
    /\ pc = "forward"
    /\ call = 2
    /\ t = timesteps
    /\ \E k \in Idx(N) :
          /\ state[k] # CZero
          /\ state' = [state EXCEPT ![k] = QuarterTurns(state[k], 1)]
    /\ forward_probs' = Append(forward_probs, Probs(state', N))
    /\ t' = t + 1
    /\ UNCHANGED <<pc, N, timesteps, i, H, state_vec, backward_probs, nU, nUinv,
                   call, returned, trace>>

\* the second call, np.random.random returning what it returned in the first
BackwardInitRepeat == call = 2 /\ BackwardInitWith(trace[1].rnd)

NextPhase ==
    \/ BuildHamiltonianIter /\ UNCHANGED <<circuitVars, sweepVars>>
    \/ BuildHamiltonianReturn /\ UNCHANGED <<circuitVars, sweepVars>>
    \/ ForwardIter /\ UNCHANGED <<circuitVars, sweepVars>>
    \/ ForwardLastTurned /\ UNCHANGED <<circuitVars, sweepVars>>
    \/ call = 1 /\ BackwardInit /\ UNCHANGED <<circuitVars, sweepVars>>
    \/ BackwardInitRepeat /\ UNCHANGED <<circuitVars, sweepVars>>
    \/ BackwardIter /\ UNCHANGED <<circuitVars, sweepVars>>
    \/ Return /\ UNCHANGED <<circuitVars, sweepVars>>
    \/ SecondCall /\ UNCHANGED <<circuitVars, sweepVars>>

SpecPhase == Init /\ [][NextPhase]_vars

\* ------------------------------------------------------------ build_circuit
\* BEST_BRACKET, the angles in units of 0.0001 rad
BEST_BRACKET ==
    [alpha |-> 23074, beta |-> 13934, gamma |-> -9259,
     phase |-> 17644, rz |-> 3, ry |-> 25472]

\* the BracketParams an analyzer is built with: each angle that of BEST_BRACKET or 0
ParamChoices ==
    [alpha : {BEST_BRACKET.alpha, 0}, beta : {BEST_BRACKET.beta, 0},
     gamma : {BEST_BRACKET.gamma, 0}, phase : {BEST_BRACKET.phase, 0},
     rz : {BEST_BRACKET.rz, 0}, ry : {BEST_BRACKET.ry, 0}]

\* the gate statements of build_circuit in order, each with the stage name of the
\* record(...) that follows it
Statements(p) ==
    << [gate |-> <<"h", 0>>,            stage |-> "After H"],
       [gate |-> <<"cx", 0, 1>>,        stage |-> "After CNOT"],
       [gate |-> <<"p", p.alpha, 1>>,   stage |-> "After alpha"],
       [gate |-> <<"p", p.phase, 1>>,   stage |-> "After phase 1"],
       [gate |-> <<"rz", p.rz, 1>>,     stage |-> "After RZ 1"],
       [gate |-> <<"ry", p.ry, 1>>,     stage |-> "After RY 1"],
       [gate |-> <<"p", p.beta, 1>>,    stage |-> "After beta"],
       [gate |-> <<"p", p.phase, 1>>,   stage |-> "After phase 2"],
       [gate |-> <<"rz", p.rz, 1>>,     stage |-> "After RZ 2"],
       [gate |-> <<"ry", p.ry, 1>>,     stage |-> "After RY 2"],
       [gate |-> <<"p", p.gamma, 1>>,   stage |-> "After gamma"] >>

NumStatements == Len(Statements(BEST_BRACKET))

\* the stage name of the record(...) after cstep gate statements
StageName(p, j) == IF j = 0 THEN "Initial" ELSE Statements(p)[j].stage

\* the statevector the simulator returns for a circuit that ends in
\* save_statevector: the state the instructions before the save prepare from
\* |00>, kept as those instructions
Statevector(c) == SubSeq(c, 1, Len(c) - 1)

\* get_current_state(qc_): the circuit afterwards and the statevector returned
GetCurrentStateNoCopy(c) ==
    LET saved == Append(c, <<"save_statevector">>)
    IN [circuit |-> saved, st |-> Statevector(saved)]
GetCurrentState(c) ==
    LET qc_copy == Append(c, <<"save_statevector">>)
    IN [circuit |-> c, st |-> Statevector(qc_copy)]

\* record(stage_name)
Record ==
    /\ cpc = "record"
    /\ IF track_states
       THEN LET got == GetCurrentState(qc)
            IN /\ qc' = got.circuit
               /\ state_tracking' =
                     Append(state_tracking, <<StageName(params, cstep), got.st>>)
       ELSE UNCHANGED <<qc, state_tracking>>
    /\ cpc' = IF cstep < NumStatements THEN "gate" ELSE "return"
    /\ UNCHANGED <<cstep, params, track_states>>

\* qc.h(0), qc.cx(0, 1), qc.p(...), qc.rz(...), qc.ry(...): the next gate statement
Gate ==
    /\ cpc = "gate"
    /\ qc' = Append(qc, Statements(params)[cstep + 1].gate)
    /\ cstep' = cstep + 1
    /\ cpc' = "record"
    /\ UNCHANGED <<params, track_states, state_tracking>>

\* return qc, state_tracking
CircuitReturn ==
    /\ cpc = "return"
    /\ cpc' = "done"
    /\ UNCHANGED <<cstep, params, track_states, qc, state_tracking>>

\* the state at the call build_circuit(track_states): qc = QuantumCircuit(2),
\* state_tracking = [], the first statement is record("Initial")
InitCircuit ==
    /\ EvalIdle
    /\ SweepIdle
    /\ cpc = "record"
    /\ cstep = 0
    /\ params \in ParamChoices
    /\ track_states \in BOOLEAN
    /\ qc = <<>>
    /\ state_tracking = <<>>

NextCircuit ==
    \/ Record /\ UNCHANGED <<evalVars, sweepVars>>
    \/ Gate /\ UNCHANGED <<evalVars, sweepVars>>
    \/ CircuitReturn /\ UNCHANGED <<evalVars, sweepVars>>

SpecCircuit == InitCircuit /\ [][NextCircuit]_vars

\* ------------------------------------------------------------ sweep
\* the grids swept: a candidate sequence for the lattice size and for the number of
\* steps, the two configuration fields compute_probability_evolution takes
Grids ==
    [latticeSize : {<<2>>, <<3, 2>>}, numSteps : {<<1>>, <<0, 2>>, <<2, 1, 0>>}]

\* the value the running best error starts from: above every error
Infinity == MaxError + 1

\* whether an error replaces the running best: first seen wins on exact ties
ImprovesReversed(err, best) == err > best
Improves(err, best) == err < best

\* one configuration of the grid: evaluate it (the evaluation returns err), append
\* the error to the history, keep the minimum, move to the next combination with
\* the inner field running fastest
SweepEvaluate ==
    /\ spc = "sweep"
    /\ outer <= Len(grid.latticeSize)
    /\ \E err \in 0 .. MaxError :
          /\ history' = Append(history, err)
          /\ IF Improves(err, bestError)
             THEN /\ bestError' = err
                  /\ bestConfiguration' =
                        [latticeSize |-> grid.latticeSize[outer],
                         numSteps |-> grid.numSteps[inner]]
             ELSE UNCHANGED <<bestError, bestConfiguration>>
    /\ IF inner < Len(grid.numSteps)
       THEN inner' = inner + 1 /\ outer' = outer
       ELSE inner' = 1 /\ outer' = outer + 1
    /\ UNCHANGED <<spc, grid>>

\* return (bestConfiguration, bestError)
SweepReturn ==
    /\ spc = "sweep"
    /\ outer > Len(grid.latticeSize)
    /\ spc' = "returned"
    /\ UNCHANGED <<grid, outer, inner, bestError, bestConfiguration, history>>

InitSweep ==
    /\ EvalIdle
    /\ CircuitIdle
    /\ spc = "sweep"
    /\ grid \in Grids
    /\ outer = 1
    /\ inner = 1
    /\ bestError = Infinity
    /\ bestConfiguration = <<>>
    /\ history = <<>>

NextSweep ==
    \/ SweepEvaluate /\ UNCHANGED <<evalVars, circuitVars>>
    \/ SweepReturn /\ UNCHANGED <<evalVars, circuitVars>>

SpecSweep == InitSweep /\ [][NextSweep]_vars

\* ------------------------------------------------------------ error score
RECURSIVE SumTo(_, _)
\* f[0] + ... + f[n-1] of integers
SumTo(f, n) == IF n = 0 THEN 0 ELSE SumTo(f, n - 1) + f[n - 1]

\* the sum over time steps and basis indices of (P_forward[t] - P_backward[t])^2
TotalError(fp, bp, n) ==
    SumTo([s \in 0 .. Len(fp) - 1 |->
             SumTo([k \in Idx(n) |->
                      FMul(fp[s + 1][k] - bp[s + 1][k], fp[s + 1][k] - bp[s + 1][k])], n)],
          Len(fp))

\* ------------------------------------------------------------ claims: the evaluation
\* the basis-state distribution: probability 1.0 at index k, 0 elsewhere
Delta(k, n) == [j \in Idx(n) |-> IF j = k THEN Scale ELSE 0]

\* C1: with timesteps = 0 the two returned sequences hold one distribution each,
\* equal at every basis index, so that the total squared discrepancy is exactly 0.
C1_ZeroStepsExact ==
    (pc = "done" /\ timesteps = 0) =>
        /\ Len(forward_probs) = 1
        /\ Len(backward_probs) = 1
        /\ \A k \in Idx(N) : forward_probs[1][k] = backward_probs[1][k]
        /\ TotalError(forward_probs, backward_probs, N) = 0

\* C2: two evaluations of the same configuration return identical forward
\* sequences and identical backward sequences (here: equal within Tolerance at
\* every time step and basis index, which identical sequences are).
C2_Deterministic ==
    Len(returned) = 2 =>
        \A side \in 1 .. 2 :
            /\ Len(returned[1][side]) = Len(returned[2][side])
            /\ \A s \in 1 .. Len(returned[1][side]) : \A k \in Idx(N) :
                  /\ returned[1][side][s][k] - returned[2][side][s][k] <= Tolerance
                  /\ returned[2][side][s][k] - returned[1][side][s][k] <= Tolerance

\* C5: two final forward states with the same squared magnitudes at every index
\* and different phases give, with the same random draw, the same backward
\* starting vector and the same backward trajectory.
C5_OnlyMagnitudesPassed ==
    /\ (Len(trace) = 2 /\ trace[1].rnd = trace[2].rnd
            /\ Probs(trace[1].final, N) = Probs(trace[2].final, N))
          => trace[1].start = trace[2].start
    /\ (Len(returned) = 2 /\ trace[1].rnd = trace[2].rnd
            /\ Probs(trace[1].final, N) = Probs(trace[2].final, N))
          => returned[1][2] = returned[2][2]

C5_Witness ==
    /\ Len(returned) = 2
    /\ timesteps >= 1
    /\ trace[1].rnd = trace[2].rnd
    /\ trace[1].final # trace[2].final
    /\ Probs(trace[1].final, N) = Probs(trace[2].final, N)
    /\ \E k \in Idx(N) : trace[1].rnd[k] # 0

\* C4: both sequences hold timesteps+1 distributions of length N; the forward entry
\* at index t is recorded after exactly t applications of U; no operator is
\* applied once the last entry is recorded; U and U^-1 are applied timesteps times.
C4_TrajectoryLength ==
    /\ [](pc = "done" =>
            /\ Len(forward_probs) = timesteps + 1
            /\ Len(backward_probs) = timesteps + 1
            /\ \A s \in 1 .. timesteps + 1 :
                  /\ DOMAIN forward_probs[s] = Idx(N)
                  /\ DOMAIN backward_probs[s] = Idx(N)
            /\ nU = timesteps
            /\ nUinv = timesteps)
    /\ [][/\ Len(forward_probs') = Len(forward_probs) + 1 => nU = Len(forward_probs)
          /\ Len(backward_probs') = Len(backward_probs) + 1
                => nUinv = Len(backward_probs)
          /\ Len(forward_probs') = timesteps + 1 => nU' = nU
          /\ Len(backward_probs') = timesteps + 1 => nUinv' = nUinv]_vars

C4_Witness ==
    pc = "done" /\ timesteps >= 2 /\ N >= 2 /\ nU = timesteps /\ nUinv = timesteps

\* C6: the backward start has zero phase (every component real and non-negative),
\* and the backward entry at index timesteps equals the forward entry at index
\* timesteps at every basis index.
C6_BackwardIndexedByTime ==
    /\ (pc = "backward" /\ t = 0) =>
          \A k \in Idx(N) : state_vec[k][2] = 0 /\ state_vec[k][1] >= 0
    /\ pc = "done" =>
          backward_probs[timesteps + 1] = forward_probs[timesteps + 1]

C8_BackwardStepRealigned ==
    [][nUinv' # nUinv =>
         LET w == BackwardStep(H, state_vec, N)
             \* a is b times a positive real number
             SameDirection(a, b) ==
                 /\ a[1] * b[2] - a[2] * b[1] = 0
                 /\ a[1] * b[1] + a[2] * b[2] >= 0
                 /\ (a = CZero) <=> (b = CZero)
         IN \A k \in Idx(N) : SameDirection(state_vec'[k], QuarterTurns(w[k], k))]_vars

\* C9: the Hamiltonian holds g at (i,i+1) and (i+1,i) for i in 0..N-2, zero at
\* every (i,j) with |i-j| >= 2, is symmetric, is the 1x1 matrix of its diagonal
\* entry for N = 1, and its construction indexes no entry outside the matrix.
C9_Hamiltonian ==
    /\ pc # "IndexError"
    /\ pc # "build_hamiltonian" =>
          /\ DOMAIN H = Idx(N) \X Idx(N)
          /\ \A r \in 0 .. N - 2 : H[r, r + 1] = CReal(g) /\ H[r + 1, r] = CReal(g)
          /\ \A r, c \in Idx(N) :
                /\ (r - c >= 2 \/ c - r >= 2) => H[r, c] = CZero
                /\ H[r, c] = H[c, r]
          /\ N = 1 => DOMAIN H = {<<0, 0>>}

C9_Witness ==
    pc = "forward" /\ N >= 3 /\ H[N - 2, N - 1] = CReal(g) /\ H[0, N - 1] = CZero

\* ------------------------------------------------------------ claims: build_circuit
StageNames ==
    <<"Initial", "After H", "After CNOT", "After alpha", "After phase 1",
      "After RZ 1", "After RY 1", "After beta", "After phase 2", "After RZ 2",
      "After RY 2", "After gamma">>

\* C10: with track_states the call returns 12 snapshots in the fixed order, snapshot
\* k taken when exactly the first k gates are appended; without it the list is
\* empty; a snapshot adds no instruction, so the circuit returned holds the same
\* 11 gates in the same order either way.
C10_Snapshots ==
    /\ [](cpc = "done" =>
            /\ qc = [j \in 1 .. 11 |-> Statements(params)[j].gate]
            /\ track_states =>
                  /\ Len(state_tracking) = 12
                  /\ \A j \in 1 .. 12 :
                        /\ state_tracking[j][1] = StageNames[j]
                        /\ state_tracking[j][2] = SubSeq(qc, 1, j - 1)
            /\ ~track_states => state_tracking = <<>>)
    /\ [][/\ Len(state_tracking') = Len(state_tracking) + 1
                => Len(qc) = Len(state_tracking) /\ qc' = qc
          /\ Len(qc') # Len(qc) => state_tracking' = state_tracking]_vars

C10_Witness ==
    cpc = "done" /\ track_states /\ Len(state_tracking) = 12 /\ Len(qc) = 11

\* ------------------------------------------------------------ claims: sweep
RECURSIVE MinOf(_)
\* the least element of a non-empty sequence of numbers
MinOf(seq) ==
    IF Len(seq) = 1 THEN seq[1]
    ELSE LET m == MinOf(Tail(seq)) IN IF seq[1] <= m THEN seq[1] ELSE m

\* C3: the running best error never increases from one evaluated configuration to
\* the next, and the best error returned is the minimum of all errors appended
\* to the history, one per combination of the grid.
C3_MonotonicBest ==
    /\ [](spc = "returned" =>
            /\ Len(history) = Len(grid.latticeSize) * Len(grid.numSteps)
            /\ bestError = MinOf(history))
    /\ [][bestError' <= bestError]_vars

C3_Witness ==
    /\ spc = "returned"
    /\ Len(history) >= 3
    /\ history[1] > history[2]
    /\ history[2] < history[3]
    /\ bestError = history[2]

====
